---- MODULE Spec2Model ----
(***************************************************************************)
(* Discrete-event simulator of a network of G/G/c/K queues                 *)
(* (src/rede_filas.py, src/gerador.py).                                    *)
(*                                                                         *)
(* Numbers.  The program computes with floats; the model computes with     *)
(* exact fixed-point integers:                                             *)
(*   - a deviate u in [0,1) is an integer d in 0..UDen-1 standing for      *)
(*     d/UDen;                                                             *)
(*   - a routing probability is an integer p standing for p/UDen;          *)
(*   - a configured duration (minService, ...) is an integer h counting    *)
(*     half time units (0.5 is 1, 1.0 is 2);                               *)
(*   - a point in time (Event.time, time, tempo_estado[i]) is an integer t *)
(*     counting 1/UDen of a half time unit (1.0 is 2 * UDen), so that      *)
(*     min + (max-min)*u is computed without rounding.                     *)
(***************************************************************************)
EXTENDS Integers, Sequences, FiniteSets, TLC

VARIABLES
    config,                 \* the dict handed to NetworkSimulator(config)
    nodes,                  \* self.nodes: name -> Node
    node_order,             \* insertion order of the self.nodes dict
    routing_table,          \* self.routing_table: source -> <<target, cumulative>>*
    total_arrivals_target,  \* self.total_arrivals_target
    total_arrivals_count,   \* self.total_arrivals_count
    rng,                    \* self.rng: SimulationRNG
    time,                   \* self.time
    last_update_time,       \* self.last_update_time
    events,                 \* self.events: the heap, as the set of pending events
    seq_counter,            \* self.seq_counter
    pc,                     \* where the caller is: rejected (__init__ raised),
                            \* ready, loop, done (run returned), error (run raised)
    trace,                  \* history: the events popped so far, in order
    picked,                 \* history: the last call of pick_destination
    twin                    \* a second simulator built from the same config

vars == <<config, nodes, node_order, routing_table, total_arrivals_target,
          total_arrivals_count, rng, time, last_update_time, events,
          seq_counter, pc, trace, picked, twin>>

---------------------------------------------------------------------------
(* Constants of the program and of the number representation               *)

ARRIVAL == "ARRIVAL"
DEPARTURE == "DEPARTURE"
None == "None"

UDen == 100

\* LinearCongruentialGenerator defaults, split in 16-bit halves:
\* a = 1664525 = 25 * 2^16 + 26125, c = 1013904223 = 15470 * 2^16 + 62303,
\* m = 2^32 = Half * Half
Half == 65536
LcgAHi == 25
LcgALo == 26125
LcgCHi == 15470
LcgCLo == 62303
DefaultSeed == 1

---------------------------------------------------------------------------
(* Bounds of the model                                                     *)

MaxK == 2          \* largest capacity k of a node
MaxEvents == 10    \* at most this many events are popped in one run
ListLen == 10      \* length of the generated replay lists
MaxTarget == 3     \* largest external-arrival target of one node

---------------------------------------------------------------------------
(* Sequences                                                               *)

Range(seq) == {seq[i] : i \in 1..Len(seq)}

RECURSIVE SumSeq(_)
SumSeq(seq) == IF seq = <<>> THEN 0 ELSE Head(seq) + SumSeq(Tail(seq))

\* F(v), with v evaluated once before F is applied to it
Let(v, F(_)) == CHOOSE r \in {F(x) : x \in {v}} : TRUE

Cycle(pattern, len) == [i \in 1..len |-> pattern[((i - 1) % Len(pattern)) + 1]]

---------------------------------------------------------------------------
(* gerador.py: LinearCongruentialGenerator.  The 32-bit state is the pair  *)
(* <<hi, lo>> of its 16-bit halves, so that no product leaves the range of *)
(* the model checker's integers.                                           *)

lcg_init(seed) == <<seed \div Half, seed % Half>>

\* self.state = (self.a * self.state + self.c) % self.m
lcg_step(st) ==
    LET hi == st[1]
        lo == st[2]
        p  == LcgALo * lo
        l1 == (p % Half) + LcgCLo
    IN  << ((p \div Half) + LcgAHi * lo + LcgALo * hi + LcgCHi + (l1 \div Half)) % Half,
           l1 % Half >>

\* return self.state / self.m, cut to a multiple of 1/UDen:
\* floor(UDen * state / 2^32)
lcg_value(st) == (UDen * st[1] + ((UDen * st[2]) \div Half)) \div Half

---------------------------------------------------------------------------
(* rede_filas.py: SimulationRNG                                            *)

\* SimulationRNG.__init__; drawn is the history of the values u returned
\* (not a field of the program)
SimulationRNG(cfg) ==
    IF cfg.has_rndnumbers /\ ~cfg.has_seeds
    THEN [source |-> "list", numbers |-> cfg.rndnumbers, pos |-> 0,
          lcg |-> lcg_init(0), used |-> 0, drawn |-> <<>>]
    ELSE [source |-> "lcg", numbers |-> <<>>, pos |-> 0,
          lcg |-> lcg_init(IF cfg.has_seed THEN cfg.seed ELSE DefaultSeed),
          used |-> 0, drawn |-> <<>>]

\* An operator that models a method of the simulator takes the simulator's
\* state s (a record of the fields) and yields [s |-> the state after the
\* call, ret |-> the value returned].  A raised exception leaves
\* pc = "error" in s; Raised(s) tells it, and the callers skip what follows.
Raised(s) == s.pc = "error"

\* u over a list that starts again from its first value when it runs out
rng_u_wraps(self) ==
    Let(self, LAMBDA s :
    LET r  == s.rng
        r1 == [r EXCEPT !.used = @ + 1]
        i  == IF r.numbers = <<>> THEN 0 ELSE (r.pos % Len(r.numbers)) + 1
    IN  IF r.source = "list"
        THEN IF r.numbers # <<>>
             THEN [s   |-> [s EXCEPT !.rng = [r1 EXCEPT !.pos = @ + 1,
                                                       !.drawn = Append(@, r.numbers[i])]],
                   ret |-> r.numbers[i]]
             ELSE [s   |-> [s EXCEPT !.rng = r1, !.pc = "error"],
                   ret |-> 0]
        ELSE LET st == lcg_step(r.lcg)
             IN  [s   |-> [s EXCEPT !.rng = [r1 EXCEPT !.lcg = st,
                                                       !.drawn = Append(@, lcg_value(st))]],
                  ret |-> lcg_value(st)])

\* SimulationRNG.u
rng_u(self) ==
    Let(self, LAMBDA s :
    LET r  == s.rng
        r1 == [r EXCEPT !.used = @ + 1]
    IN  IF r.source = "list"
        THEN IF r.pos < Len(r.numbers)
             THEN [s   |-> [s EXCEPT !.rng = [r1 EXCEPT !.pos = @ + 1,
                                                       !.drawn = Append(@, r.numbers[r.pos + 1])]],
                   ret |-> r.numbers[r.pos + 1]]
             ELSE [s   |-> [s EXCEPT !.rng = r1, !.pc = "error"],
                   ret |-> 0]
        ELSE LET st == lcg_step(r.lcg)
             IN  [s   |-> [s EXCEPT !.rng = [r1 EXCEPT !.lcg = st,
                                                       !.drawn = Append(@, lcg_value(st))]],
                  ret |-> lcg_value(st)])

\* NetworkSimulator._make_sampler: sample() of the range <<min_val, max_val>>
sample(self, range) ==
    Let(self, LAMBDA s :
    LET d == rng_u(s)
    IN  [s |-> d.s, ret |-> range[1] * UDen + (range[2] - range[1]) * d.ret])

---------------------------------------------------------------------------
(* rede_filas.py: Node                                                     *)

\* Node(...) with __post_init__; admitted and attempts are history counters
\* of the calls of admit (not fields of the program).
Node(params) ==
    [name |-> params.name,
     c |-> params.servers,
     k |-> params.capacity,
     service |-> <<params.minService, params.maxService>>,
     has_arrival |-> params.has_arrival,
     arrival |-> <<params.minArrival, params.maxArrival>>,
     n |-> 0,
     tempo_estado |-> [i \in 0..params.capacity |-> 0],
     atendidos |-> 0,
     perdas |-> 0,
     admitted |-> 0,
     attempts |-> 0]

\* admit with the bound test off by one (n > k for n >= k)
admit_off_by_one(nd) ==
    IF nd.n > nd.k
    THEN [node |-> [nd EXCEPT !.perdas = @ + 1, !.attempts = @ + 1],
          ret  |-> FALSE]
    ELSE [node |-> [nd EXCEPT !.n = @ + 1, !.attempts = @ + 1, !.admitted = @ + 1],
          ret  |-> TRUE]

\* Node.admit
admit(nd) ==
    IF nd.n >= nd.k
    THEN [node |-> [nd EXCEPT !.perdas = @ + 1, !.attempts = @ + 1],
          ret  |-> FALSE]
    ELSE [node |-> [nd EXCEPT !.n = @ + 1, !.attempts = @ + 1, !.admitted = @ + 1],
          ret  |-> TRUE]

\* finish_service_one that forgets to count the served customer
finish_service_one_uncounted(nd) ==
    [nd EXCEPT !.n = @ - 1]

\* Node.finish_service_one
finish_service_one(nd) ==
    [nd EXCEPT !.n = @ - 1, !.atendidos = @ + 1]

---------------------------------------------------------------------------
(* rede_filas.py: NetworkSimulator.__init__ and _build_network             *)

RulesOf(network, source) == SelectSeq(network, LAMBDA r : r.source = source)

\* list.sort(key=prob) is stable: x, which came after the elements of
\* sorted, goes behind every element whose prob is not larger
InsertByProb(sorted, x) ==
    LET before == SelectSeq(sorted, LAMBDA r : r.probability <= x.probability)
        after  == SelectSeq(sorted, LAMBDA r : r.probability > x.probability)
    IN  before \o <<x>> \o after

RECURSIVE SortByProb(_)
SortByProb(rules) ==
    IF rules = <<>> THEN <<>>
    ELSE InsertByProb(SortByProb(SubSeq(rules, 1, Len(rules) - 1)), rules[Len(rules)])

\* the table with each rule's own probability, not accumulated
Cumulative_raw(sorted) ==
    [i \in 1..Len(sorted) |-> <<sorted[i].target, sorted[i].probability>>]

\* the <<target, cumulative_prob>> pairs of the sorted destinations
Cumulative(sorted) ==
    [i \in 1..Len(sorted) |->
        <<sorted[i].target,
          SumSeq([j \in 1..i |-> sorted[j].probability])>>]

build_routing(cfg) ==
    [source \in {r.source : r \in Range(cfg.network)} |->
        Cumulative(SortByProb(RulesOf(cfg.network, source)))]

\* capacity = int(params.get('capacity', float('inf'))): int(float('inf'))
\* raises OverflowError, so the loop over the queues stops at the first queue
\* that has no 'capacity' (Len + 1: at none)
capacity_raises_at(cfg) ==
    LET missing == {i \in 1..Len(cfg.queues) : ~cfg.queues[i].has_capacity}
    IN  IF missing = {} THEN Len(cfg.queues) + 1
        ELSE CHOOSE i \in missing : \A j \in missing : i <= j

build_nodes(cfg) ==
    [name \in {cfg.queues[i].name : i \in 1..(capacity_raises_at(cfg) - 1)} |->
        Node(CHOOSE q \in Range(cfg.queues) : q.name = name)]

\* NetworkSimulator(config): the fields after __init__, or, when
\* _build_network raised, the fields assigned until then
NetworkSimulator(cfg) ==
    IF capacity_raises_at(cfg) <= Len(cfg.queues)
    THEN [rng |-> SimulationRNG(cfg),
          nodes |-> build_nodes(cfg),
          node_order |-> [i \in 1..(capacity_raises_at(cfg) - 1) |-> cfg.queues[i].name],
          routing_table |-> <<>>,
          total_arrivals_target |-> 0,
          total_arrivals_count |-> 0,
          time |-> 0,
          last_update_time |-> 0,
          events |-> {},
          seq_counter |-> 0,
          pc |-> "rejected",
          trace |-> <<>>,
          picked |-> <<>>]
    ELSE
    [rng |-> SimulationRNG(cfg),
     nodes |-> build_nodes(cfg),
     node_order |-> [i \in 1..Len(cfg.queues) |-> cfg.queues[i].name],
     routing_table |-> build_routing(cfg),
     total_arrivals_target |-> SumSeq(cfg.arrivals),
     total_arrivals_count |-> 0,
     time |-> 0,
     last_update_time |-> 0,
     events |-> {},
     seq_counter |-> 0,
     pc |-> "ready",
     trace |-> <<>>,
     picked |-> <<>>]

\* the simulator's state as one record, and its assignment to the variables
Sim ==
    [rng |-> rng, nodes |-> nodes, node_order |-> node_order,
     routing_table |-> routing_table,
     total_arrivals_target |-> total_arrivals_target,
     total_arrivals_count |-> total_arrivals_count,
     time |-> time, last_update_time |-> last_update_time,
     events |-> events, seq_counter |-> seq_counter, pc |-> pc,
     trace |-> trace, picked |-> picked]

Apply(self) ==
    \E s \in {self} :
    /\ rng' = s.rng
    /\ nodes' = s.nodes
    /\ node_order' = s.node_order
    /\ routing_table' = s.routing_table
    /\ total_arrivals_target' = s.total_arrivals_target
    /\ total_arrivals_count' = s.total_arrivals_count
    /\ time' = s.time
    /\ last_update_time' = s.last_update_time
    /\ events' = s.events
    /\ seq_counter' = s.seq_counter
    /\ pc' = s.pc
    /\ trace' = s.trace
    /\ picked' = s.picked

---------------------------------------------------------------------------
(* rede_filas.py: Event and the heap                                       *)

\* events compared as (time, etype, seq): the fields in another order
EventLess_etype_first(a, b) ==
    \/ a.time < b.time
    \/ a.time = b.time /\ a.etype = ARRIVAL /\ b.etype = DEPARTURE
    \/ a.time = b.time /\ a.etype = b.etype /\ a.seq < b.seq

\* @dataclass(order=True): events compare as (time, seq, etype); node_name
\* has compare=False.  "ARRIVAL" < "DEPARTURE" as strings.
EventLess(a, b) ==
    \/ a.time < b.time
    \/ a.time = b.time /\ a.seq < b.seq
    \/ a.time = b.time /\ a.seq = b.seq /\ a.etype = ARRIVAL /\ b.etype = DEPARTURE

\* a pop that takes any event of the least time, whatever its seq
Earliest_any_seq(evs) == {e \in evs : \A o \in evs : e.time <= o.time}

\* heapq.heappop(self.events) returns a least event of the heap
Earliest(evs) == {e \in evs : \A o \in evs : ~EventLess(o, e)}

\* NetworkSimulator.schedule
schedule(self, t, etype, node_name) ==
    Let(self, LAMBDA s :
    [s EXCEPT !.seq_counter = @ + 1,
              !.events = @ \cup {[time |-> t, seq |-> s.seq_counter + 1,
                                  etype |-> etype, node_name |-> node_name]}])

---------------------------------------------------------------------------
(* rede_filas.py: NetworkSimulator.update_time_stats, pick_destination     *)

OrderIndex(s, name) == CHOOSE i \in 1..Len(s.node_order) : s.node_order[i] = name

\* update_time_stats that never moves last_update_time
update_time_stats_keep_last(self, t_new) ==
    Let(self, LAMBDA s :
    LET dt == t_new - s.last_update_time
    IN  IF dt > 0
        THEN [s EXCEPT !.nodes = [name \in DOMAIN s.nodes |->
                 [s.nodes[name] EXCEPT !.tempo_estado[s.nodes[name].n] = @ + dt]]]
        ELSE s)

\* tempo_estado[node.n] raises IndexError when n is no index of the list;
\* the nodes before that one in the dict have been updated by then
update_time_stats(self, t_new) ==
    Let(self, LAMBDA s :
    LET dt  == t_new - s.last_update_time
        bad == {i \in 1..Len(s.node_order) :
                   LET nd == s.nodes[s.node_order[i]]
                   IN  nd.n \notin DOMAIN nd.tempo_estado}
        stop == IF bad = {} THEN Len(s.node_order) + 1
                ELSE CHOOSE i \in bad : \A j \in bad : i <= j
        upd == [name \in DOMAIN s.nodes |->
                   IF OrderIndex(s, name) < stop
                   THEN [s.nodes[name] EXCEPT !.tempo_estado[s.nodes[name].n] = @ + dt]
                   ELSE s.nodes[name]]
    IN  IF dt > 0
        THEN IF bad = {}
             THEN [s EXCEPT !.nodes = upd, !.last_update_time = t_new]
             ELSE [s EXCEPT !.nodes = upd, !.pc = "error"]
        ELSE [s EXCEPT !.last_update_time = t_new])

\* the loop of pick_destination with u <= cumulative_prob
first_match_le(rules, u) ==
    LET hits == {i \in 1..Len(rules) : u <= rules[i][2]}
    IN  IF hits = {} THEN None
        ELSE rules[CHOOSE i \in hits : \A j \in hits : i <= j][1]

\* the loop of pick_destination: the first target with u < cumulative_prob
first_match(rules, u) ==
    LET hits == {i \in 1..Len(rules) : u < rules[i][2]}
    IN  IF hits = {} THEN None
        ELSE rules[CHOOSE i \in hits : \A j \in hits : i <= j][1]

\* pick_destination that draws its deviate before it looks at the rules
pick_destination_always_draws(self, source_node_name) ==
    Let(self, LAMBDA s :
    LET rules == IF source_node_name \in DOMAIN s.routing_table
                 THEN s.routing_table[source_node_name] ELSE <<>>
        d     == rng_u(s)
        ret   == first_match(rules, d.ret)
    IN  IF Raised(d.s) THEN [s |-> d.s, ret |-> None]
        ELSE [s   |-> [d.s EXCEPT !.picked = Append(@,
                         [source |-> source_node_name, drew |-> TRUE,
                          u |-> d.ret, ret |-> ret])],
              ret |-> ret])

\* NetworkSimulator.pick_destination
pick_destination(self, source_node_name) ==
    Let(self, LAMBDA s :
    LET rules == IF source_node_name \in DOMAIN s.routing_table
                 THEN s.routing_table[source_node_name] ELSE <<>>
    IN  IF rules = <<>>
        THEN [s   |-> [s EXCEPT !.picked = Append(@,
                          [source |-> source_node_name, drew |-> FALSE,
                           u |-> 0, ret |-> None])],
              ret |-> None]
        ELSE LET d   == rng_u(s)
                 ret == first_match(rules, d.ret)
             IN  IF Raised(d.s) THEN [s |-> d.s, ret |-> None]
                 ELSE [s   |-> [d.s EXCEPT !.picked = Append(@,
                                  [source |-> source_node_name, drew |-> TRUE,
                                   u |-> d.ret, ret |-> ret])],
                       ret |-> ret])

---------------------------------------------------------------------------
(* rede_filas.py: NetworkSimulator.run                                     *)

\* the sampled duration taken for the time of the event
schedule_sampled_absolute(self, range, etype, node_name) ==
    Let(self, LAMBDA s :
    LET d == sample(s, range)
    IN  IF Raised(d.s) THEN d.s
        ELSE schedule(d.s, d.ret, etype, node_name))

\* x = sampler(); self.schedule(self.time + x, etype, node_name)
schedule_sampled(self, range, etype, node_name) ==
    Let(self, LAMBDA s :
    LET d == sample(s, range)
    IN  IF Raised(d.s) THEN d.s
        ELSE schedule(d.s, d.s.time + d.ret, etype, node_name))

\* the first loop of run: the first external arrival of every node that has
\* an arrival sampler, from node i of the dict on
RECURSIVE first_arrivals(_, _)
first_arrivals(self, i) ==
    Let(self, LAMBDA s :
    IF i > Len(s.node_order) \/ Raised(s) THEN s
    ELSE LET nd == s.nodes[s.node_order[i]]
         IN  IF nd.has_arrival
             THEN first_arrivals(schedule_sampled(s, nd.arrival, ARRIVAL, nd.name), i + 1)
             ELSE first_arrivals(s, i + 1))

run_init(self) ==
    Let(self, LAMBDA s :
    LET s1 == first_arrivals(s, 1)
    IN  IF Raised(s1) THEN s1 ELSE [s1 EXCEPT !.pc = "loop"])

\* the loop condition with <= for <: one event too many
loop_condition_le(s) ==
    /\ s.events # {}
    /\ \/ s.total_arrivals_target = 0
       \/ s.total_arrivals_count <= s.total_arrivals_target

\* the condition of the while loop
loop_condition(s) ==
    /\ s.events # {}
    /\ \/ s.total_arrivals_target = 0
       \/ s.total_arrivals_count < s.total_arrivals_target

\* a service started only when n < c
admit_and_serve_strict(self, name) ==
    Let(self, LAMBDA s :
    LET a  == admit(s.nodes[name])
        s1 == [s EXCEPT !.nodes[name] = a.node]
    IN  IF a.ret /\ a.node.n < a.node.c
        THEN schedule_sampled(s1, a.node.service, DEPARTURE, name)
        ELSE s1)

\* if node.admit(): if node.n <= node.c: schedule its DEPARTURE
admit_and_serve(self, name) ==
    Let(self, LAMBDA s :
    LET a  == admit(s.nodes[name])
        s1 == [s EXCEPT !.nodes[name] = a.node]
    IN  IF a.ret /\ a.node.n <= a.node.c
        THEN schedule_sampled(s1, a.node.service, DEPARTURE, name)
        ELSE s1)

\* an ARRIVAL branch that starts a service whether or not admit succeeded
arrival_branch_always_serves(self, name) ==
    Let(self, LAMBDA s :
    LET s1 == [s EXCEPT !.total_arrivals_count = @ + 1]
        s2 == IF s1.nodes[name].has_arrival
              THEN schedule_sampled(s1, s1.nodes[name].arrival, ARRIVAL, name)
              ELSE s1
        a  == admit(s2.nodes[name])
        s3 == [s2 EXCEPT !.nodes[name] = a.node]
    IN  IF Raised(s2) THEN s2
        ELSE IF a.node.n <= a.node.c
        THEN schedule_sampled(s3, a.node.service, DEPARTURE, name)
        ELSE s3)

\* an ARRIVAL branch that schedules the next arrival only for an admitted
\* customer
arrival_branch_next_if_admitted(self, name) ==
    Let(self, LAMBDA s :
    LET s1 == [s EXCEPT !.total_arrivals_count = @ + 1]
        a  == admit(s1.nodes[name])
        s2 == IF s1.nodes[name].has_arrival /\ a.ret
              THEN schedule_sampled(s1, s1.nodes[name].arrival, ARRIVAL, name)
              ELSE s1
    IN  IF Raised(s2) THEN s2 ELSE admit_and_serve(s2, name))

\* an ARRIVAL branch that does not count the arrival
arrival_branch_uncounted(self, name) ==
    Let(self, LAMBDA s :
    LET s2 == IF s.nodes[name].has_arrival
              THEN schedule_sampled(s, s.nodes[name].arrival, ARRIVAL, name)
              ELSE s
    IN  IF Raised(s2) THEN s2 ELSE admit_and_serve(s2, name))

\* the ARRIVAL branch of the loop body
arrival_branch(self, name) ==
    Let(self, LAMBDA s :
    LET s1 == [s EXCEPT !.total_arrivals_count = @ + 1]
        s2 == IF s1.nodes[name].has_arrival
              THEN schedule_sampled(s1, s1.nodes[name].arrival, ARRIVAL, name)
              ELSE s1
    IN  IF Raised(s2) THEN s2 ELSE admit_and_serve(s2, name))

\* a DEPARTURE branch that starts the next service only when n > c
departure_branch_gt(self, name) ==
    Let(self, LAMBDA s :
    LET s1 == [s EXCEPT !.nodes[name] = finish_service_one(@)]
        s2 == IF s1.nodes[name].n > s1.nodes[name].c
              THEN schedule_sampled(s1, s1.nodes[name].service, DEPARTURE, name)
              ELSE s1
        p  == pick_destination(s2, name)
    IN  IF Raised(s2) THEN s2
        ELSE IF Raised(p.s) \/ p.ret = None THEN p.s
        ELSE IF p.ret \notin DOMAIN p.s.nodes THEN [p.s EXCEPT !.pc = "error"]
        ELSE admit_and_serve(p.s, p.ret))

\* a DEPARTURE branch that does not offer the customer to a full destination
departure_branch_skips_full(self, name) ==
    Let(self, LAMBDA s :
    LET s1 == [s EXCEPT !.nodes[name] = finish_service_one(@)]
        s2 == IF s1.nodes[name].n >= s1.nodes[name].c
              THEN schedule_sampled(s1, s1.nodes[name].service, DEPARTURE, name)
              ELSE s1
        p  == pick_destination(s2, name)
    IN  IF Raised(s2) THEN s2
        ELSE IF Raised(p.s) \/ p.ret = None THEN p.s
        ELSE IF p.ret \notin DOMAIN p.s.nodes THEN [p.s EXCEPT !.pc = "error"]
        ELSE IF p.s.nodes[p.ret].n >= p.s.nodes[p.ret].k THEN p.s
        ELSE admit_and_serve(p.s, p.ret))

\* the DEPARTURE branch of the loop body
departure_branch(self, name) ==
    Let(self, LAMBDA s :
    LET s1 == [s EXCEPT !.nodes[name] = finish_service_one(@)]
        s2 == IF s1.nodes[name].n >= s1.nodes[name].c
              THEN schedule_sampled(s1, s1.nodes[name].service, DEPARTURE, name)
              ELSE s1
        p  == pick_destination(s2, name)
    IN  IF Raised(s2) THEN s2
        ELSE IF Raised(p.s) \/ p.ret = None THEN p.s
        ELSE IF p.ret \notin DOMAIN p.s.nodes THEN [p.s EXCEPT !.pc = "error"]
        ELSE admit_and_serve(p.s, p.ret))

\* a loop body that updates the statistics after the event's branch
iteration_stats_last(self, ev) ==
    Let(self, LAMBDA s :
    LET s1 == [s EXCEPT !.events = @ \ {ev}, !.trace = Append(@, ev)]
        s3 == [s1 EXCEPT !.time = ev.time]
        b  == IF ev.etype = ARRIVAL THEN arrival_branch(s3, ev.node_name)
              ELSE departure_branch(s3, ev.node_name)
    IN  IF Raised(b) THEN b ELSE update_time_stats(b, ev.time))

\* one pass of the loop body, for the popped event ev
iteration(self, ev) ==
    Let(self, LAMBDA s :
    LET s1 == [s EXCEPT !.events = @ \ {ev}, !.trace = Append(@, ev)]
        s2 == update_time_stats(s1, ev.time)
        s3 == [s2 EXCEPT !.time = ev.time]
    IN  IF Raised(s2) THEN s2
        ELSE IF ev.node_name \notin DOMAIN s3.nodes THEN [s3 EXCEPT !.pc = "error"]
        ELSE IF ev.etype = ARRIVAL THEN arrival_branch(s3, ev.node_name)
        ELSE departure_branch(s3, ev.node_name))

\* after the loop: the final update_time_stats and the return
run_return(self) ==
    Let(self, LAMBDA s :
    LET s1 == update_time_stats(s, s.time)
    IN  IF Raised(s1) THEN s1 ELSE [s1 EXCEPT !.pc = "done"])

\* NetworkSimulator._get_results (prob_estado, a quotient of floats, is left out)
get_results(s) ==
    [tempo_global |-> s.time,
     randoms_usados |-> s.rng.used,
     chegadas_totais |-> s.total_arrivals_count,
     filas |-> [name \in DOMAIN s.nodes |->
                  [servidores |-> s.nodes[name].c,
                   capacidade |-> s.nodes[name].k,
                   atendidos |-> s.nodes[name].atendidos,
                   perdas |-> s.nodes[name].perdas,
                   tempo_estado |-> s.nodes[name].tempo_estado]]]

\* every state one step of run can lead to from s
Successors(s) ==
    IF s.pc = "ready" THEN {run_init(s)}
    ELSE IF s.pc # "loop" THEN {}
    ELSE IF ~loop_condition(s) THEN {run_return(s)}
    ELSE IF Len(s.trace) >= MaxEvents THEN {}
    ELSE {iteration(s, ev) : ev \in Earliest(s.events)}

---------------------------------------------------------------------------
(* The configurations the simulators are built from                        *)

Queue(name, servers, capacity, service, arrival) ==
    [name |-> name, servers |-> servers,
     has_capacity |-> TRUE, capacity |-> capacity,
     minService |-> service[1], maxService |-> service[2],
     has_arrival |-> arrival # <<>>,
     minArrival |-> IF arrival = <<>> THEN 0 ELSE arrival[1],
     maxArrival |-> IF arrival = <<>> THEN 0 ELSE arrival[2]]

\* a queue whose params have no 'capacity' key
QueueNoCapacity(name, servers, service, arrival) ==
    [Queue(name, servers, 0, service, arrival) EXCEPT !.has_capacity = FALSE]

Rule(source, target, probability) ==
    [source |-> source, target |-> target, probability |-> probability]

\* the RNG keys of a config: 'rndnumbers', 'seeds', 'seed'
Replay(numbers) ==
    [has_rndnumbers |-> TRUE, rndnumbers |-> numbers, has_seeds |-> FALSE,
     has_seed |-> FALSE, seed |-> 0]

Seeded(seed) ==
    [has_rndnumbers |-> FALSE, rndnumbers |-> <<>>, has_seeds |-> FALSE,
     has_seed |-> TRUE, seed |-> seed]

\* both 'seed' and 'rndnumbers'; both 'seeds' and 'rndnumbers'
SeedAndReplay(seed, numbers) ==
    [has_rndnumbers |-> TRUE, rndnumbers |-> numbers, has_seeds |-> FALSE,
     has_seed |-> TRUE, seed |-> seed]

SeedsAndReplay(numbers) ==
    [has_rndnumbers |-> TRUE, rndnumbers |-> numbers, has_seeds |-> TRUE,
     has_seed |-> FALSE, seed |-> 0]

Config(queues, network, arrivals, r) ==
    [queues |-> queues, network |-> network, arrivals |-> arrivals,
     has_rndnumbers |-> r.has_rndnumbers, rndnumbers |-> r.rndnumbers,
     has_seeds |-> r.has_seeds, has_seed |-> r.has_seed, seed |-> r.seed]

ServiceRanges == {<<1, 1>>, <<2, 2>>, <<4, 4>>, <<1, 3>>}
ArrivalRanges == {<<2, 2>>, <<0, 2>>}
Patterns == {<<0>>, <<30, 50>>, <<99, 0>>, <<50, 70, 99>>}
ReplayLists == {Cycle(pat, ListLen) : pat \in Patterns}
Rngs == {Replay(l) : l \in ReplayLists} \cup {Seeded(1), Seeded(2)}

\* With the algorithmic source the model cuts a deviate to a multiple of
\* 1/UDen, which changes no comparison with a probability; a sampled duration
\* stays exact when its range is a single value.
Exact(cfg) ==
    \/ cfg.has_rndnumbers /\ ~cfg.has_seeds
    \/ \A i \in 1..Len(cfg.queues) :
          /\ cfg.queues[i].minService = cfg.queues[i].maxService
          /\ cfg.queues[i].minArrival = cfg.queues[i].maxArrival

\* one node, with or without a feedback rule
SingleConfigs ==
    {Config(<<Queue("Q1", c, k, svc, arr)>>, net, <<tg>>, r) :
        c \in 1..2, k \in 0..MaxK, svc \in ServiceRanges, arr \in ArrivalRanges,
        net \in {<<>>, <<Rule("Q1", "Q1", 50)>>}, tg \in 0..MaxTarget, r \in Rngs}

Networks ==
    {<<Rule("Q1", "Q2", 100)>>,
     <<Rule("Q1", "Q2", 70), Rule("Q1", "Q1", 30)>>,
     <<Rule("Q1", "Q2", 50), Rule("Q2", "Q1", 40)>>}

\* two nodes: Q1 with external arrivals, Q2 fed by routing (and, in some
\* configurations, by external arrivals of its own)
TandemConfigs ==
    {Config(<<Queue("Q1", 1, k1, svc1, <<2, 2>>), Queue("Q2", c2, k2, <<4, 4>>, arr2)>>,
            net, tgs, r) :
        k1 \in 1..MaxK, svc1 \in {<<1, 1>>, <<1, 3>>}, c2 \in 1..2, k2 \in 1..MaxK,
        arr2 \in {<<>>, <<2, 2>>}, net \in Networks,
        tgs \in {<<0, 0>>, <<2, 1>>, <<MaxTarget, 0>>}, r \in Rngs}

\* the scenarios of the specification's section 8: one node, c = 1, k = 1,
\* inter-arrival 1.0, service 0.5 or 2.0, three arrivals, replay of zeros
ZeroList(len) == [i \in 1..len |-> 0]

Scenario(svc, tg, r) ==
    Config(<<Queue("Q1", 1, 1, svc, <<2, 2>>)>>, <<>>, <<tg>>, r)

ScenarioConfigs ==
    {Scenario(<<1, 1>>, 3, Replay(ZeroList(6))),
     Scenario(<<1, 1>>, 3, Replay(ZeroList(7))),
     Scenario(<<4, 4>>, 0, Replay(ZeroList(12)))}

\* routing probes: Q1 routes its first customer to Q2 or Q3 (or out) with
\* the fourth deviate of the replay list, which ranges over all of [0,1)
RouteProbs == {0, 20, 30, 50, 70}

ProbeConfigs ==
    {Config(<<Queue("Q1", 1, 1, <<1, 1>>, <<2, 2>>), Queue("Q2", 1, 1, <<1, 1>>, <<>>),
              Queue("Q3", 1, 1, <<1, 1>>, <<>>)>>,
            <<Rule("Q1", "Q2", p2), Rule("Q1", "Q3", p3)>>, <<2>>,
            Replay(<<0, 0, 0, u, 0>>)) :
        p2 \in RouteProbs, p3 \in RouteProbs, u \in 0..(UDen - 1)}

\* a tandem whose two service times both depend on the deviate drawn, so
\* that the order of the draws of one event shows in the times scheduled
OrderConfigs ==
    {Config(<<Queue("Q1", 1, 2, <<1, 3>>, <<2, 2>>), Queue("Q2", 1, k2, <<1, 3>>, <<>>)>>,
            <<Rule("Q1", "Q2", 100)>>, <<MaxTarget, 0>>, Replay(l)) :
        k2 \in 1..MaxK, l \in ReplayLists}

Configs ==
    {cfg \in SingleConfigs \cup TandemConfigs \cup ScenarioConfigs \cup ProbeConfigs
              \cup OrderConfigs :
        Exact(cfg)}

\* inputs at the edge of what a configuration may say: a queue without a
\* capacity, a negative capacity, a probability outside [0,1], an RNG given
\* both as a seed and as a list; and well-formed ones beside them
InputCapacities == {-2, -1, 0, 1}
InputProbs == {-50, 50, 150}
InputRngs ==
    {Replay(ZeroList(ListLen)), Seeded(1),
     SeedAndReplay(1, ZeroList(ListLen)), SeedsAndReplay(ZeroList(ListLen))}

InputQueues ==
    {<<Queue("Q1", 1, k, <<1, 1>>, <<2, 2>>)>> : k \in InputCapacities}
    \cup {<<QueueNoCapacity("Q1", 1, <<1, 1>>, <<2, 2>>)>>,
          <<Queue("Q1", 1, 1, <<1, 1>>, <<2, 2>>),
            QueueNoCapacity("Q2", 1, <<1, 1>>, <<>>)>>,
          <<Queue("Q1", 1, 1, <<1, 1>>, <<2, 2>>),
            Queue("Q2", 1, -1, <<1, 1>>, <<>>)>>}

InputConfigs ==
    {Config(qs, net, <<tg>>, r) :
        qs \in InputQueues,
        net \in {<<>>} \cup {<<Rule("Q1", "Q1", p)>> : p \in InputProbs},
        tg \in {0, 2}, r \in InputRngs}

\* runs that are to end by themselves: strictly positive durations, routing
\* with self-loops and cycles, the algorithmic source or a replay list
LiveNetworks ==
    {<<>>, <<Rule("Q1", "Q1", 50)>>, <<Rule("Q1", "Q1", 100)>>}

LiveCycles ==
    {<<Rule("Q1", "Q2", 100), Rule("Q2", "Q1", 100)>>,
     <<Rule("Q1", "Q2", 50), Rule("Q2", "Q1", 40)>>}

LiveRngs ==
    {Seeded(1), Seeded(2), Replay(ZeroList(ListLen)), Replay(ZeroList(2)),
     Replay(Cycle(<<99, 0>>, ListLen))}

LiveConfigs ==
    {Config(<<Queue("Q1", c, k, svc, <<2, 2>>)>>, net, <<tg>>, r) :
        c \in 1..2, k \in 0..MaxK, svc \in {<<1, 1>>, <<2, 2>>, <<4, 4>>},
        net \in LiveNetworks, tg \in 0..2, r \in LiveRngs}
    \cup
    {Config(<<Queue("Q1", 1, k1, <<1, 1>>, <<2, 2>>), Queue("Q2", 1, 1, <<2, 2>>, arr2)>>,
            net, tgs, r) :
        k1 \in 1..MaxK, arr2 \in {<<>>, <<2, 2>>}, net \in LiveCycles,
        tgs \in {<<2, 0>>, <<1, 1>>}, r \in LiveRngs}

---------------------------------------------------------------------------
(* The specification: sim = NetworkSimulator(config); sim.run()            *)

Built(s) ==
    /\ rng = s.rng
    /\ nodes = s.nodes
    /\ node_order = s.node_order
    /\ routing_table = s.routing_table
    /\ total_arrivals_target = s.total_arrivals_target
    /\ total_arrivals_count = s.total_arrivals_count
    /\ time = s.time
    /\ last_update_time = s.last_update_time
    /\ events = s.events
    /\ seq_counter = s.seq_counter
    /\ pc = s.pc
    /\ trace = s.trace
    /\ picked = s.picked

Init ==
    /\ config \in Configs
    /\ Built(NetworkSimulator(config))
    /\ twin = NetworkSimulator(config)

\* run, up to the while loop
RunStart ==
    /\ pc = "ready"
    /\ Apply(run_init(Sim))
    /\ UNCHANGED <<config, twin>>

\* one pass of the loop on an ARRIVAL event
ProcessArrival ==
    /\ pc = "loop"
    /\ loop_condition(Sim)
    /\ Len(trace) < MaxEvents
    /\ \E ev \in Earliest(events) :
          /\ ev.etype = ARRIVAL
          /\ Apply(iteration(Sim, ev))
    /\ UNCHANGED <<config, twin>>

\* one pass of the loop on a DEPARTURE event
ProcessDeparture ==
    /\ pc = "loop"
    /\ loop_condition(Sim)
    /\ Len(trace) < MaxEvents
    /\ \E ev \in Earliest(events) :
          /\ ev.etype = DEPARTURE
          /\ Apply(iteration(Sim, ev))
    /\ UNCHANGED <<config, twin>>

\* the loop ends: final update and return of the results
RunReturn ==
    /\ pc = "loop"
    /\ ~loop_condition(Sim)
    /\ Apply(run_return(Sim))
    /\ UNCHANGED <<config, twin>>

Next == RunStart \/ ProcessArrival \/ ProcessDeparture \/ RunReturn

Spec == Init /\ [][Next]_vars

\* the same program, built from the configurations of InputConfigs
InitInput ==
    /\ config \in InputConfigs
    /\ Built(NetworkSimulator(config))
    /\ twin = NetworkSimulator(config)

SpecInput == InitInput /\ [][Next]_vars

\* the program built from the configurations of LiveConfigs; run is one
\* thread that goes on while it has a step to take
InitLive ==
    /\ config \in LiveConfigs
    /\ Built(NetworkSimulator(config))
    /\ twin = NetworkSimulator(config)

SpecLive == InitLive /\ [][Next]_vars /\ WF_vars(Next)

\* two simulators built from the same config, each running on its own
PairStep ==
    /\ \E s2 \in Successors(Sim), t2 \in Successors(twin) :
          /\ Apply(s2)
          /\ twin' = t2
    /\ UNCHANGED config

SpecTwin == Init /\ [][PairStep]_vars

---------------------------------------------------------------------------
(* Vocabulary of the properties                                            *)

Last(seq) == seq[Len(seq)]

RECURSIVE SumTo(_, _)
SumTo(f, i) == IF i < 0 THEN 0 ELSE f[i] + SumTo(f, i - 1)

\* the sum of a node's tempo_estado vector
TotalTime(nd) == SumTo(nd.tempo_estado, nd.k)

\* this step popped an event, and the event it popped
PoppedNow == trace' # trace
PoppedEv == trace'[Len(trace')]

\* the run has ended, by a return or by an exception
Ended == pc \in {"done", "error"}

ArrivalTimes ==
    LET arr == SelectSeq(trace, LAMBDA e : e.etype = ARRIVAL)
    IN  [i \in 1..Len(arr) |-> arr[i].time]

---------------------------------------------------------------------------
(* C1: every node's occupancy stays within 0 <= n <= k in every state of a *)
(* run, and a call of admit made at n = k returns False, adds exactly 1 to *)
(* perdas and leaves n as it was.                                          *)

C1_State ==
    \A name \in DOMAIN nodes :
        0 <= nodes[name].n /\ nodes[name].n <= nodes[name].k

\* n of the node when admit is called in this step: the node of a popped
\* DEPARTURE has finished one service by then
NAtAdmit(name) ==
    nodes[name].n -
        (IF PoppedNow /\ PoppedEv.etype = DEPARTURE /\ PoppedEv.node_name = name
         THEN 1 ELSE 0)

C1_Step ==
    \A name \in DOMAIN nodes :
        (nodes'[name].attempts # nodes[name].attempts /\ NAtAdmit(name) = nodes[name].k)
        => /\ nodes'[name].attempts = nodes[name].attempts + 1
           /\ nodes'[name].perdas = nodes[name].perdas + 1
           /\ nodes'[name].n = NAtAdmit(name)
           /\ nodes'[name].admitted = nodes[name].admitted

C1_Capacity == [][C1_State /\ C1_State' /\ C1_Step]_vars

\* a node fed by routing only is full and has turned a customer away
C1_Witness ==
    \E name \in DOMAIN nodes :
        /\ ~nodes[name].has_arrival
        /\ nodes[name].k > 0
        /\ nodes[name].n = nodes[name].k
        /\ nodes[name].perdas > 0

---------------------------------------------------------------------------
(* C2: for every node, also one that owns no event, the sum of its         *)
(* tempo_estado equals last_update_time, which equals the clock, after     *)
(* every event; when run returns the sum equals the reported tempo_global. *)

C2_TimeSum ==
    /\ last_update_time = time
    /\ \A name \in DOMAIN nodes : TotalTime(nodes[name]) = last_update_time
    /\ pc = "done" =>
          \A name \in DOMAIN nodes :
              TotalTime(nodes[name]) = get_results(Sim).tempo_global

\* a run of two nodes has returned at a positive time, and one of the nodes
\* never saw a customer
C2_Witness ==
    /\ pc = "done"
    /\ time > 0
    /\ Cardinality(DOMAIN nodes) = 2
    /\ \E name \in DOMAIN nodes : nodes[name].attempts = 0

---------------------------------------------------------------------------
(* C3: schedule gives each event a sequence number greater than every      *)
(* earlier one, and each pop removes the pending event of the least        *)
(* (time, seq): no pending event is earlier, and of the events of that     *)
(* time the one scheduled first goes first, whatever its kind or node.     *)

KeyLeq(a, b) == a.time < b.time \/ (a.time = b.time /\ a.seq <= b.seq)

C3_Step ==
    /\ \A e \in events : e.seq <= seq_counter
    /\ \A e \in events' \ events : seq_counter < e.seq /\ e.seq <= seq_counter'
    /\ \A e1, e2 \in events' : e1.seq = e2.seq => e1 = e2
    /\ Cardinality(events' \ events) = seq_counter' - seq_counter
    /\ PoppedNow =>
          /\ trace' = Append(trace, PoppedEv)
          /\ PoppedEv \in events
          /\ PoppedEv \notin events'
          /\ \A e \in events : KeyLeq(PoppedEv, e)

C3_Order == [][C3_Step]_vars

\* a DEPARTURE was popped before an ARRIVAL of the same time
C3_Witness ==
    \E i \in 1..(Len(trace) - 1) :
        /\ trace[i].time = trace[i + 1].time
        /\ trace[i].etype = DEPARTURE
        /\ trace[i + 1].etype = ARRIVAL

---------------------------------------------------------------------------
(* C4: the scenario c = 1, k = 1, inter-arrival 1.0, service 0.5, target 3 *)
(* and replay [0,0,0,0,0,0].                                               *)

C4Config == Scenario(<<1, 1>>, 3, Replay(ZeroList(6)))
C4Config7 == Scenario(<<1, 1>>, 3, Replay(ZeroList(7)))

\* C4 as claimed: the run completes with arrivals at t = 1, 2, 3, each
\* admitted and served, perdas = 0, atendidos = 3, tempo_global = 3.0 and
\* tempo_estado = [1.5, 1.5].
C4_Original ==
    (config = C4Config /\ Ended)
    => /\ pc = "done"
       /\ ArrivalTimes = <<2 * UDen, 4 * UDen, 6 * UDen>>
       /\ nodes["Q1"].admitted = 3
       /\ nodes["Q1"].perdas = 0
       /\ nodes["Q1"].atendidos = 3
       /\ get_results(Sim).tempo_global = 6 * UDen
       /\ nodes["Q1"].tempo_estado[0] = 3 * UDen
       /\ nodes["Q1"].tempo_estado[1] = 3 * UDen

C4_Stats ==
    /\ ArrivalTimes = <<2 * UDen, 4 * UDen, 6 * UDen>>
    /\ nodes["Q1"].admitted = 3
    /\ nodes["Q1"].perdas = 0
    /\ nodes["Q1"].atendidos = 2
    /\ nodes["Q1"].n = 1
    /\ time = 6 * UDen
    /\ nodes["Q1"].tempo_estado[0] = 4 * UDen
    /\ nodes["Q1"].tempo_estado[1] = 2 * UDen

\* C4 as amended: with the six deviates the run ends in the exhaustion
\* error, raised by the seventh draw (the service time of the arrival at
\* t = 3), after arrivals at t = 1, 2, 3, each admitted, with perdas = 0,
\* atendidos = 2, the clock at 3.0 and tempo_estado = [2.0, 1.0]; with a
\* seventh deviate the run completes with these values.
C4_Amended ==
    /\ (config = C4Config /\ Ended)
       => (pc = "error" /\ rng.used = 7 /\ rng.pos = 6 /\ C4_Stats)
    /\ (config = C4Config7 /\ Ended)
       => (pc = "done" /\ rng.used = 7 /\ C4_Stats
           /\ get_results(Sim).tempo_global = 6 * UDen)

C4_Witness ==
    /\ config = C4Config
    /\ pc = "error"
    /\ total_arrivals_count = 3

---------------------------------------------------------------------------
(* C5: in the single-node network with c = 1, k = 1, inter-arrival 1 and   *)
(* service 2, the arrival processed at t = 2 finds n = 1 and is rejected;  *)
(* perdas grows by exactly 1 for each external arrival that finds n = 1,   *)
(* and by nothing else; the rejected arrival leaves n at 1 and schedules   *)
(* no DEPARTURE.                                                           *)

C5Network ==
    /\ config.queues = <<Queue("Q1", 1, 1, <<4, 4>>, <<2, 2>>)>>
    /\ config.network = <<>>

\* this step pops an ARRIVAL that finds the node full and gets as far as admit
C5_Collision ==
    /\ PoppedNow
    /\ PoppedEv.etype = ARRIVAL
    /\ nodes["Q1"].n = 1
    /\ pc' # "error"

C5_Step ==
    C5Network
    => /\ nodes'["Q1"].perdas = nodes["Q1"].perdas + (IF C5_Collision THEN 1 ELSE 0)
       /\ C5_Collision
          => /\ nodes'["Q1"].n = 1
             /\ \A e \in events' \ events : e.etype # DEPARTURE
       /\ (PoppedNow /\ PoppedEv.etype = ARRIVAL /\ PoppedEv.time = 4 * UDen /\ pc' # "error")
          => C5_Collision

C5_Loss == [][C5_Step]_vars

C5_Witness ==
    /\ C5Network
    /\ nodes["Q1"].perdas >= 2
    /\ nodes["Q1"].n = 1

---------------------------------------------------------------------------
(* C6: pick_destination(source) draws one deviate u and returns the first  *)
(* target of the source's table, which is in ascending order of cumulative *)
(* probability, whose cumulative probability is strictly greater than u (a *)
(* cumulative probability equal to u does not match); it returns None when *)
(* u is below no cumulative value or the source has no rules.  With rules  *)
(* 0.3 and 0.7, u = 0.5 gives the target of the 0.7 rule; with rules that  *)
(* sum to 0.9, u = 0.95 gives None.                                        *)

TableOf(source) ==
    IF source \in DOMAIN routing_table THEN routing_table[source] ELSE <<>>

Ascending(rules) ==
    \A i, j \in 1..Len(rules) : i < j => rules[i][2] <= rules[j][2]

PickOk(call) ==
    LET rules == TableOf(call.source)
    IN  /\ Ascending(rules)
        /\ call.drew = (rules # <<>>)
        /\ rules = <<>> => call.ret = None
        /\ call.ret # None =>
              \E i \in 1..Len(rules) :
                  /\ rules[i][1] = call.ret
                  /\ rules[i][2] > call.u
                  /\ \A j \in 1..(i - 1) : rules[j][2] <= call.u
        /\ call.ret = None =>
              \A i \in 1..Len(rules) : rules[i][2] <= call.u

C6_Examples(call) ==
    /\ (config.network = <<Rule("Q1", "Q2", 30), Rule("Q1", "Q3", 70)>>
        /\ call.source = "Q1" /\ call.u = 50) => call.ret = "Q3"
    /\ (config.network = <<Rule("Q1", "Q2", 20), Rule("Q1", "Q3", 70)>>
        /\ call.source = "Q1" /\ call.u = 95) => call.ret = None

C6_Pick ==
    \A i \in 1..Len(picked) : PickOk(picked[i]) /\ C6_Examples(picked[i])

\* a call whose deviate equals the first cumulative probability of a table
\* of two steps got the second target
C6_Witness ==
    \E i \in 1..Len(picked) :
        LET rules == TableOf(picked[i].source)
        IN  /\ Len(rules) = 2
            /\ rules[1][2] < rules[2][2]
            /\ picked[i].u = rules[1][2]
            /\ picked[i].ret = rules[2][1]
            /\ rules[2][1] # rules[1][1]

---------------------------------------------------------------------------
(* C7: for a source whose routing probabilities sum to 1.0,                *)
(* pick_destination never returns None, whatever the deviate, so every     *)
(* customer that finishes service there is offered to a destination node.  *)

ProbSum(source) ==
    LET rules == RulesOf(config.network, source)
    IN  SumSeq([i \in 1..Len(rules) |-> rules[i].probability])

C7_Step ==
    /\ \A i \in 1..Len(picked') :
          ProbSum(picked'[i].source) = UDen => picked'[i].ret # None
    /\ (picked' # picked /\ ProbSum(Last(picked').source) = UDen)
       => /\ Last(picked').ret \in DOMAIN nodes
          /\ nodes'[Last(picked').ret].attempts =
                nodes[Last(picked').ret].attempts + 1
    /\ (PoppedNow /\ PoppedEv.etype = DEPARTURE /\ pc' # "error"
        /\ ProbSum(PoppedEv.node_name) = UDen)
       => /\ picked' # picked
          /\ Last(picked').source = PoppedEv.node_name

C7_Complete == [][C7_Step]_vars

\* the largest deviate was drawn for a source whose probabilities sum to 1.0
C7_Witness ==
    \E i \in 1..Len(picked) :
        /\ ProbSum(picked[i].source) = UDen
        /\ picked[i].u = UDen - 1
        /\ picked[i].ret # None

---------------------------------------------------------------------------
(* C8: customer conservation per node: between events, the successful      *)
(* admissions of a node (external arrivals and customers routed in) equal  *)
(* atendidos + n, and the admission attempts equal atendidos + n + perdas. *)

C8_Conservation ==
    \A name \in DOMAIN nodes :
        /\ nodes[name].admitted = nodes[name].atendidos + nodes[name].n
        /\ nodes[name].attempts =
              nodes[name].atendidos + nodes[name].n + nodes[name].perdas

\* a node fed by routing only has served, holds and has lost customers
C8_Witness ==
    \E name \in DOMAIN nodes :
        /\ ~nodes[name].has_arrival
        /\ nodes[name].atendidos > 0
        /\ nodes[name].n > 0
        /\ nodes[name].perdas > 0

---------------------------------------------------------------------------
(* C9: two simulators built from the same configuration and the same seed  *)
(* (or replay list) process the same sequence of events (time, seq, kind,  *)
(* node) and return the same results.                                      *)

---------------------------------------------------------------------------
(* C10: the run stops on the sum of the per-node external-arrival targets: *)
(* when the sum is positive, total_arrivals_count never exceeds it, the    *)
(* loop stops right after the ARRIVAL that makes the count equal to it,    *)
(* the events pending then (DEPARTUREs of customers in service included)   *)
(* are never processed, and tempo_global is the time of that last event.   *)

C10_State ==
    /\ total_arrivals_target = SumSeq(config.arrivals)
    /\ total_arrivals_target > 0 => total_arrivals_count <= total_arrivals_target
    /\ (pc = "done" /\ trace # <<>>)
       => /\ time = Last(trace).time
          /\ get_results(Sim).tempo_global = Last(trace).time
    /\ (pc = "done" /\ total_arrivals_target > 0 /\ events # {})
       => /\ total_arrivals_count = total_arrivals_target
          /\ Last(trace).etype = ARRIVAL

C10_Step ==
    /\ (total_arrivals_target > 0 /\ total_arrivals_count = total_arrivals_target)
       => /\ ~PoppedNow
          /\ events' = events
          /\ pc' = "done"
    /\ (PoppedNow /\ total_arrivals_target > 0
        /\ total_arrivals_count' = total_arrivals_target)
       => PoppedEv.etype = ARRIVAL

C10_Stop == [][C10_State /\ C10_State' /\ C10_Step]_vars

\* a run with targets on two nodes has returned with a DEPARTURE pending
C10_Witness ==
    /\ pc = "done"
    /\ config.arrivals = <<2, 1>>
    /\ total_arrivals_count = 3
    /\ \E e \in events : e.etype = DEPARTURE

---------------------------------------------------------------------------
(* C11: a node defined without a capacity is accepted at construction as a *)
(* node of unbounded capacity, and no admission attempt at it is ever      *)
(* rejected: its perdas stays 0.                                           *)

NoCapacityNames ==
    {config.queues[i].name : i \in {j \in 1..Len(config.queues) :
                                       ~config.queues[j].has_capacity}}

C11_Unbounded ==
    \A name \in NoCapacityNames :
        /\ pc # "rejected"
        /\ name \in DOMAIN nodes
        /\ nodes[name].perdas = 0

---------------------------------------------------------------------------
(* C12: constructing a simulator from malformed or contradictory input     *)
(* (both a seed and a replay list, a negative capacity, a routing          *)
(* probability outside [0,1]) fails at construction: no simulator that can *)
(* be run is obtained from such input and no such error first shows up     *)
(* during run.                                                             *)

SeedWithReplay ==
    config.has_rndnumbers /\ (config.has_seed \/ config.has_seeds)

NegativeCapacity ==
    \E i \in 1..Len(config.queues) :
        config.queues[i].has_capacity /\ config.queues[i].capacity < 0

ProbabilityOutside ==
    \E i \in 1..Len(config.network) :
        config.network[i].probability < 0 \/ config.network[i].probability > UDen

C12_Rejected ==
    (SeedWithReplay \/ NegativeCapacity \/ ProbabilityOutside)
    => pc = "rejected"

---------------------------------------------------------------------------
(* C13: with a replay list of length L the first L draws return the list's *)
(* values in order and draw L + 1 raises the exhaustion error, which       *)
(* aborts run at once: nothing is scheduled by the failed draw, the error  *)
(* is not caught or retried, no event is popped after it and run returns   *)
(* no results.                                                             *)

\* the calls of pick_destination that drew a deviate
DrewPicks(calls) == Cardinality({i \in 1..Len(calls) : calls[i].drew})

C13_State ==
    rng.source = "list" =>
        /\ rng.numbers = config.rndnumbers
        /\ Len(rng.drawn) <= Len(rng.numbers)
        /\ rng.drawn = SubSeq(rng.numbers, 1, Len(rng.drawn))
        /\ pc # "error" => rng.used = Len(rng.drawn)
        /\ pc = "error" => /\ Len(rng.drawn) = Len(rng.numbers)
                           /\ rng.used = Len(rng.numbers) + 1

C13_Step ==
    /\ pc # "error"
    /\ Len(rng'.drawn) - Len(rng.drawn) =
          (seq_counter' - seq_counter) + (DrewPicks(picked') - DrewPicks(picked))
    /\ pc' = "error" => rng'.used = rng.used + (Len(rng'.drawn) - Len(rng.drawn)) + 1

C13_Exhaustion == [][C13_State /\ C13_State' /\ C13_Step]_vars

\* a list of ListLen values ran out while a DEPARTURE was processed
C13_Witness ==
    /\ pc = "error"
    /\ rng.source = "list"
    /\ Len(rng.drawn) = ListLen
    /\ rng.used = ListLen + 1
    /\ Last(trace).etype = DEPARTURE

---------------------------------------------------------------------------
(* C14: processing an ARRIVAL at a node with an arrival sampler schedules  *)
(* that node's next ARRIVAL, at the current time plus one sampled          *)
(* inter-arrival, whether or not the customer is admitted; so between      *)
(* events every node with an arrival sampler has exactly one pending       *)
(* ARRIVAL and a node without one has none.                                *)

PendingOf(evs, etype, name) ==
    {e \in evs : e.etype = etype /\ e.node_name = name}

C14_State ==
    pc \in {"loop", "done"} =>
        \A name \in DOMAIN nodes :
            Cardinality(PendingOf(events, ARRIVAL, name)) =
                (IF nodes[name].has_arrival THEN 1 ELSE 0)

\* the first deviate drawn in this step
FirstDrawn == rng'.drawn[Len(rng.drawn) + 1]

C14_Step ==
    (PoppedNow /\ PoppedEv.etype = ARRIVAL /\ nodes[PoppedEv.node_name].has_arrival
     /\ Len(rng'.drawn) > Len(rng.drawn))
    => LET nd == nodes[PoppedEv.node_name]
       IN  [time |-> PoppedEv.time + nd.arrival[1] * UDen
                        + (nd.arrival[2] - nd.arrival[1]) * FirstDrawn,
            seq |-> seq_counter + 1,
            etype |-> ARRIVAL,
            node_name |-> nd.name] \in events'

C14_NextArrival == [][C14_State /\ C14_State' /\ C14_Step]_vars

\* the last step was an ARRIVAL at a full node: the customer was turned away
\* and the node's next ARRIVAL is the event scheduled last
C14_Witness ==
    /\ pc = "loop"
    /\ trace # <<>>
    /\ Last(trace).etype = ARRIVAL
    /\ LET nd == nodes[Last(trace).node_name]
       IN  /\ nd.has_arrival
           /\ nd.k > 0
           /\ nd.k <= nd.c
           /\ nd.n = nd.k
           /\ nd.perdas > 0
           /\ nd.arrival[1] < nd.arrival[2]
           /\ \E e \in PendingOf(events, ARRIVAL, nd.name) :
                 e.seq = seq_counter /\ e.time > Last(trace).time

---------------------------------------------------------------------------
(* C15: on each processed event at time t, before any occupancy changes,   *)
(* update_time_stats adds t - last_update_time to tempo_estado[n] of every *)
(* node, n being the node's occupancy before the event, and changes no     *)
(* other entry of any tempo_estado; so tempo_estado[i] of a node grows     *)
(* only over intervals in which the node's occupancy was i.                *)

C15_Step ==
    \A name \in DOMAIN nodes :
        /\ DOMAIN nodes'[name].tempo_estado = 0..nodes[name].k
        /\ \A i \in 0..nodes[name].k :
              nodes'[name].tempo_estado[i] =
                  nodes[name].tempo_estado[i] +
                  (IF PoppedNow /\ i = nodes[name].n
                   THEN PoppedEv.time - last_update_time ELSE 0)

C15_Frame == [][C15_Step]_vars

\* a node that only routing feeds has spent time at each occupancy 0, 1, 2,
\* and a node with external arrivals at occupancies 0 and 1
C15_Witness ==
    /\ Cardinality(DOMAIN nodes) >= 2
    /\ \E name \in DOMAIN nodes :
          /\ ~nodes[name].has_arrival
          /\ nodes[name].k >= 2
          /\ nodes[name].tempo_estado[0] > 0
          /\ nodes[name].tempo_estado[1] > 0
          /\ nodes[name].tempo_estado[2] > 0
    /\ \E name \in DOMAIN nodes :
          /\ nodes[name].has_arrival
          /\ nodes[name].k >= 1
          /\ nodes[name].tempo_estado[0] > 0
          /\ nodes[name].tempo_estado[1] > 0

---------------------------------------------------------------------------
(* C16: when a DEPARTURE at node A routes its customer to a node B that is *)
(* full, the customer is lost silently: B's perdas grows by 1, B's n is    *)
(* unchanged and no DEPARTURE is scheduled at B, while A is treated as in  *)
(* any departure (n - 1, atendidos + 1, its next DEPARTURE scheduled if    *)
(* n >= c afterwards); no error is raised and the run goes on.             *)

\* this step was a DEPARTURE whose customer was routed to the node B
RoutedTo(B) ==
    /\ PoppedNow
    /\ PoppedEv.etype = DEPARTURE
    /\ picked' # picked
    /\ Last(picked').ret = B

C16_Step ==
    \A B \in DOMAIN nodes :
        (RoutedTo(B) /\ NAtAdmit(B) = nodes[B].k)
        => LET A == PoppedEv.node_name
           IN  /\ pc' = "loop"
               /\ B # A
               /\ nodes'[B] = [nodes[B] EXCEPT
                       !.perdas = @ + 1, !.attempts = @ + 1,
                       !.tempo_estado[nodes[B].n] = @ + (PoppedEv.time - last_update_time)]
               /\ PendingOf(events', DEPARTURE, B) = PendingOf(events, DEPARTURE, B)
               /\ nodes'[A].n = nodes[A].n - 1
               /\ nodes'[A].atendidos = nodes[A].atendidos + 1
               /\ nodes'[A].perdas = nodes[A].perdas
               /\ IF nodes'[A].n >= nodes[A].c
                  THEN /\ seq_counter' = seq_counter + 1
                       /\ \E e \in events' \ events :
                             /\ events' = (events \ {PoppedEv}) \cup {e}
                             /\ e.etype = DEPARTURE
                             /\ e.node_name = A
                             /\ e.seq = seq_counter'
                             /\ e.time = PoppedEv.time + nodes[A].service[1] * UDen
                                   + (nodes[A].service[2] - nodes[A].service[1]) * FirstDrawn
                  ELSE /\ seq_counter' = seq_counter
                       /\ events' = events \ {PoppedEv}

C16_SilentLoss == [][C16_Step]_vars

\* the last step was a DEPARTURE at A that started A's next service and
\* routed its customer to B, which was full and turned the customer away
C16_Witness ==
    /\ pc = "loop"
    /\ trace # <<>>
    /\ picked # <<>>
    /\ Last(trace).etype = DEPARTURE
    /\ Last(picked).source = Last(trace).node_name
    /\ Last(picked).ret \in DOMAIN nodes
    /\ LET A == nodes[Last(trace).node_name]
           B == nodes[Last(picked).ret]
       IN  /\ A.name # B.name
           /\ B.k <= B.c
           /\ B.n = B.k
           /\ B.perdas > 0
           /\ A.n >= A.c
           /\ \E e \in PendingOf(events, DEPARTURE, A.name) : e.seq = seq_counter

---------------------------------------------------------------------------
(* C17: randoms_usados is the number of deviates requested so far and      *)
(* never decreases: each sampler invocation requests exactly one deviate,  *)
(* pick_destination requests exactly one when the source has rules and     *)
(* none when it has none, and within a DEPARTURE the draws come in the     *)
(* order origin's next service time, routing deviate, destination's        *)
(* service time.                                                           *)

\* the value a sampler of this range makes of the deviate u
Sampled(range, u) == range[1] * UDen + (range[2] - range[1]) * u

\* the event that was given the sequence number q
Scheduled(evs, q) == CHOOSE e \in evs : e.seq = q

C17_State ==
    /\ get_results(Sim).randoms_usados = rng.used
    /\ rng.used = Len(rng.drawn) + (IF pc = "error" THEN 1 ELSE 0)
    /\ \A i \in 1..Len(picked) :
          picked[i].drew = (TableOf(picked[i].source) # <<>>)

C17_Departure ==
    (PoppedNow /\ PoppedEv.etype = DEPARTURE /\ pc' = "loop")
    => LET A     == PoppedEv.node_name
           first == Len(rng.drawn) + 1
           again == nodes[A].n - 1 >= nodes[A].c
           route == TableOf(A) # <<>>
           B     == Last(picked').ret
           uAt   == first + (IF again THEN 1 ELSE 0)
           serve == route /\ B # None /\ nodes'[B].admitted # nodes[B].admitted
                          /\ nodes'[B].n <= nodes[B].c
           sAt   == uAt + 1
       IN  /\ Len(picked') = Len(picked) + 1
           /\ Last(picked').source = A
           /\ Len(rng'.drawn) = Len(rng.drawn) + (IF again THEN 1 ELSE 0)
                 + (IF route THEN 1 ELSE 0) + (IF serve THEN 1 ELSE 0)
           /\ seq_counter' = seq_counter + (IF again THEN 1 ELSE 0)
                 + (IF serve THEN 1 ELSE 0)
           /\ again => Scheduled(events', seq_counter + 1) =
                 [time |-> PoppedEv.time + Sampled(nodes[A].service, rng'.drawn[first]),
                  seq |-> seq_counter + 1, etype |-> DEPARTURE, node_name |-> A]
           /\ route => Last(picked').u = rng'.drawn[uAt]
           /\ serve => Scheduled(events', seq_counter') =
                 [time |-> PoppedEv.time + Sampled(nodes[B].service, rng'.drawn[sAt]),
                  seq |-> seq_counter', etype |-> DEPARTURE, node_name |-> B]

C17_Step ==
    /\ rng'.used >= rng.used
    /\ rng'.used - rng.used =
          (seq_counter' - seq_counter) + (DrewPicks(picked') - DrewPicks(picked))
          + (IF pc' = "error" THEN 1 ELSE 0)
    /\ C17_Departure

C17_Draws == [][C17_State /\ C17_State' /\ C17_Step]_vars

\* the last step was a DEPARTURE that drew three different deviates: they
\* made the origin's next service time, the routing deviate and the
\* destination's service time, in this order
C17_Witness ==
    /\ pc = "loop"
    /\ trace # <<>>
    /\ picked # <<>>
    /\ Last(trace).etype = DEPARTURE
    /\ Len(rng.drawn) >= 3
    /\ LET A  == Last(trace).node_name
           B  == Last(picked).ret
           d  == rng.drawn
           m  == Len(rng.drawn)
       IN  /\ B \in DOMAIN nodes
           /\ B # A
           /\ d[m - 2] # d[m - 1] /\ d[m - 1] # d[m] /\ d[m - 2] # d[m]
           /\ nodes[A].service[1] < nodes[A].service[2]
           /\ nodes[B].service[1] < nodes[B].service[2]
           /\ [time |-> Last(trace).time + Sampled(nodes[A].service, d[m - 2]),
               seq |-> seq_counter - 1, etype |-> DEPARTURE, node_name |-> A] \in events
           /\ Last(picked).u = d[m - 1]
           /\ [time |-> Last(trace).time + Sampled(nodes[B].service, d[m]),
               seq |-> seq_counter, etype |-> DEPARTURE, node_name |-> B] \in events

---------------------------------------------------------------------------
(* C18: between events, the number of pending DEPARTURE events of every    *)
(* node equals min(n, c): each customer on a server has exactly one        *)
(* scheduled departure, waiting customers have none, never more than c     *)
(* services are in progress, and so a DEPARTURE is never processed at a    *)
(* node with n = 0.                                                        *)

Min(a, b) == IF a <= b THEN a ELSE b

C18_State ==
    pc \in {"loop", "done"} =>
        \A name \in DOMAIN nodes :
            /\ Cardinality(PendingOf(events, DEPARTURE, name)) =
                  Min(nodes[name].n, nodes[name].c)
            /\ nodes[name].n >= 0

C18_Step ==
    (PoppedNow /\ PoppedEv.etype = DEPARTURE) => nodes[PoppedEv.node_name].n > 0

C18_InService == [][C18_State /\ C18_State' /\ C18_Step]_vars

\* the last step was a DEPARTURE at a node whose servers stay busy, so that
\* its next DEPARTURE was scheduled; and a node holds a waiting customer
\* beside the c customers in service
C18_Witness ==
    /\ pc = "loop"
    /\ trace # <<>>
    /\ Last(trace).etype = DEPARTURE
    /\ LET nd == nodes[Last(trace).node_name]
       IN  /\ nd.n >= nd.c
           /\ nd.atendidos >= 2
           /\ \E e \in PendingOf(events, DEPARTURE, nd.name) : e.seq = seq_counter
    /\ \E name \in DOMAIN nodes :
          /\ nodes[name].n > nodes[name].c
          /\ Cardinality(PendingOf(events, DEPARTURE, name)) = nodes[name].c

---------------------------------------------------------------------------
(* C19: when all sampler ranges are non-negative the clock never moves     *)
(* backwards: every event is scheduled at a time >= the current clock, the *)
(* times of successively popped events do not decrease, and the interval   *)
(* dt of update_time_stats is never negative.                              *)

NonNegativeRanges ==
    \A i \in 1..Len(config.queues) :
        /\ config.queues[i].minService >= 0
        /\ config.queues[i].maxService >= config.queues[i].minService
        /\ config.queues[i].minArrival >= 0
        /\ config.queues[i].maxArrival >= config.queues[i].minArrival

C19_Step ==
    NonNegativeRanges =>
        /\ \A e \in events : e.time >= time
        /\ \A e \in events' \ events : e.time >= time'
        /\ time' >= time
        /\ last_update_time' >= last_update_time
        /\ PoppedNow => /\ PoppedEv.time - last_update_time >= 0
                        /\ PoppedEv.time >= time
                        /\ trace # <<>> => PoppedEv.time >= Last(trace).time

C19_Monotone == [][C19_Step]_vars

\* an ARRIVAL scheduled the node's next ARRIVAL at the very time of the
\* clock (a sampled inter-arrival of zero), and that event was popped next
C19_Witness ==
    /\ Len(trace) >= 2
    /\ time > 0
    /\ Last(trace).etype = ARRIVAL
    /\ trace[Len(trace) - 1].etype = ARRIVAL
    /\ Last(trace).node_name = trace[Len(trace) - 1].node_name
    /\ Last(trace).time = trace[Len(trace) - 1].time
    /\ Last(trace).seq > trace[Len(trace) - 1].seq

---------------------------------------------------------------------------
(* C20: if the summed arrival target is positive, some node has an arrival *)
(* sampler and all inter-arrival and service durations are strictly        *)
(* positive, then run eventually terminates with total_arrivals_count      *)
(* equal to the target, whatever the routing table (cycles and self-loops  *)
(* included); only processed ARRIVAL events count towards the target, not  *)
(* the customers admitted by routing.                                      *)

C20_Hypotheses ==
    /\ SumSeq(config.arrivals) > 0
    /\ \E i \in 1..Len(config.queues) : config.queues[i].has_arrival
    /\ \A i \in 1..Len(config.queues) :
          /\ config.queues[i].minService > 0
          /\ config.queues[i].maxService >= config.queues[i].minService
          /\ config.queues[i].has_arrival =>
                /\ config.queues[i].minArrival > 0
                /\ config.queues[i].maxArrival >= config.queues[i].minArrival

CountsArrivals ==
    total_arrivals_count = Len(SelectSeq(trace, LAMBDA e : e.etype = ARRIVAL))

Returned == pc = "done" /\ total_arrivals_count = total_arrivals_target

Exhausted ==
    /\ pc = "error"
    /\ rng.source = "list"
    /\ rng.used = Len(rng.numbers) + 1

\* C20 as claimed: under the hypotheses every run returns with the count at
\* the target
C20_Original ==
    C20_Hypotheses => ([]CountsArrivals /\ <>Returned)

\* C20 as amended: under the hypotheses every run ends, either by returning
\* with the count at the target or, with a replay list too short for it, by
\* the exhaustion error; with the algorithmic source it always returns.
C20_Amended ==
    C20_Hypotheses =>
        /\ []CountsArrivals
        /\ <>(Returned \/ Exhausted)
        /\ (rng.source = "lcg" => <>Returned)

\* a run through a routing cycle has returned at its target, and a node
\* admitted more customers than there were external arrivals
C20_Witness ==
    /\ C20_Hypotheses
    /\ Returned
    /\ \E i \in 1..Len(picked) : picked[i].ret # None
    /\ \E name \in DOMAIN nodes : nodes[name].admitted > total_arrivals_count

====
